---- MODULE Spec2Model ----
(***************************************************************************)
(* Server actions and route guard of the dashboard application:            *)
(*   src/app/lib/actions.ts   createInvoice, updateInvoice, deleteInvoice, *)
(*                            authenticate, addUser and their zod schemas  *)
(*   src/auth.config.ts       getUser, Credentials.authorize, authorized   *)
(*                                                                         *)
(* The relational store is the pair of tables `invoices` and `users`.      *)
(* Every handler is one action.  `last` records the most recent handler    *)
(* invocation: its arguments, the externally visible effects it performed  *)
(* in order (SQL statements, bcrypt calls, revalidatePath, redirect) and   *)
(* what it returned or threw.                                              *)
(*                                                                         *)
(* Strings whose characters matter to the code (amounts, e-mails,          *)
(* passwords, user names, URL paths) are sequences of one-character        *)
(* strings; other strings are TLA+ strings.  Decimal numbers are held in   *)
(* fixed point with FracDigits fractional digits (exact arithmetic; the    *)
(* rounding of IEEE doubles is not modelled).                              *)
(***************************************************************************)
EXTENDS Integers, Sequences, FiniteSets, TLC

VARIABLES invoices, nextId, users, last

vars == <<invoices, nextId, users, last>>

(***************************************************************************)
(* Bounds of the model.                                                    *)
(***************************************************************************)
MaxInvoices == 2
MaxUsers == 1
MaxPathLen == 4

(***************************************************************************)
(* FormData.get(name): null when the field is absent, else its string.     *)
(***************************************************************************)
Null == [isNull |-> TRUE, s |-> <<>>]
Str(s) == [isNull |-> FALSE, s |-> s]

Digits == {"0", "1", "2", "3", "4", "5", "6", "7", "8", "9"}
UpperCase ==
  {"A", "B", "C", "D", "E", "F", "G", "H", "I", "J", "K", "L", "M",
   "N", "O", "P", "Q", "R", "S", "T", "U", "V", "W", "X", "Y", "Z"}
LowerCase ==
  {"a", "b", "c", "d", "e", "f", "g", "h", "i", "j", "k", "l", "m",
   "n", "o", "p", "q", "r", "s", "t", "u", "v", "w", "x", "y", "z"}
Letters == UpperCase \cup LowerCase
AlphaNum == Letters \cup Digits

DigitVal(c) ==
  CASE c = "0" -> 0 [] c = "1" -> 1 [] c = "2" -> 2 [] c = "3" -> 3
    [] c = "4" -> 4 [] c = "5" -> 5 [] c = "6" -> 6 [] c = "7" -> 7
    [] c = "8" -> 8 [] c = "9" -> 9

RECURSIVE DigitsVal(_)
DigitsVal(s) ==
  IF s = <<>> THEN 0
  ELSE DigitsVal(SubSeq(s, 1, Len(s) - 1)) * 10 + DigitVal(s[Len(s)])

RECURSIVE Pow10(_)
Pow10(n) == IF n = 0 THEN 1 ELSE 10 * Pow10(n - 1)

(***************************************************************************)
(* Numbers: NaN, or a decimal held as an integer count of 10^-FracDigits.  *)
(***************************************************************************)
FracDigits == 3
Unit == Pow10(FracDigits)
NaN == [nan |-> TRUE, milli |-> 0]
Num(m) == [nan |-> FALSE, milli |-> m]
IsInteger(n) == ~n.nan /\ n.milli % Unit = 0

(***************************************************************************)
(* z.coerce.number() applies JavaScript's Number(input): null and the      *)
(* empty string give 0, a decimal literal [+-]digits[.digits] gives its    *)
(* value, anything else NaN.  Exponents, hexadecimal and Infinity are not  *)
(* among the inputs enumerated below.                                      *)
(***************************************************************************)
Number(v) ==
  IF v.isNull \/ v.s = <<>> THEN Num(0)
  ELSE
    LET s == v.s
        signed == s[1] \in {"-", "+"}
        body == IF signed THEN Tail(s) ELSE s
        dots == {i \in 1..Len(body) : body[i] = "."}
        d == IF dots = {} THEN Len(body) + 1 ELSE CHOOSE i \in dots : TRUE
        int == SubSeq(body, 1, d - 1)
        frac == SubSeq(body, d + 1, Len(body))
        wellFormed ==
          /\ Cardinality(dots) <= 1
          /\ \A i \in 1..Len(int) : int[i] \in Digits
          /\ \A i \in 1..Len(frac) : frac[i] \in Digits
          /\ Len(int) + Len(frac) >= 1
          /\ Len(frac) <= FracDigits
        magnitude ==
          DigitsVal(int) * Unit + DigitsVal(frac) * Pow10(FracDigits - Len(frac))
    IN IF ~wellFormed THEN NaN
       ELSE IF s[1] = "-" THEN Num(0 - magnitude)
       ELSE Num(magnitude)

(***************************************************************************)
(* zod issues and ZodError.flatten().fieldErrors: the messages of the      *)
(* issues of each field, in order, keyed by the fields that have any.      *)
(***************************************************************************)
Issue(path, message) == [path |-> path, message |-> message]

FieldErrors(issues) ==
  [f \in {issues[i].path : i \in DOMAIN issues} |->
     LET own == SelectSeq(issues, LAMBDA x : x.path = f)
     IN [i \in 1..Len(own) |-> own[i].message]]

(***************************************************************************)
(* FormSchema with id and date omitted (CreateInvoice, UpdateInvoice).     *)
(***************************************************************************)
Statuses == {"pending", "paid"}

FormSchema(form) ==
  LET amount == Number(form.amount)
      customerIssues ==
        IF form.customerId.isNull
        THEN <<Issue("customerId", "Please select a customer.")>> ELSE <<>>
      amountIssues ==
        IF amount.nan
        THEN <<Issue("amount", "Expected number, received nan")>>
        ELSE IF ~(amount.milli > 0)
        THEN <<Issue("amount", "Please enter an amount greater than $0.")>>
        ELSE <<>>
      statusIssues ==
        IF form.status.isNull
        THEN <<Issue("status", "Please select an invoice status.")>>
        ELSE IF form.status.s \notin Statuses
        THEN <<Issue("status", "Invalid enum value.")>>
        ELSE <<>>
      issues == customerIssues \o amountIssues \o statusIssues
  IN [success |-> issues = <<>>,
      issues |-> issues,
      data |-> [customerId |-> form.customerId.s,
                amount |-> amount,
                status |-> form.status.s]]

CreateInvoice(form) == FormSchema(form)
UpdateInvoice(form) == FormSchema(form)

(***************************************************************************)
(* Results and effects of a handler invocation.                            *)
(***************************************************************************)
NoErrors == [f \in {} |-> <<>>]

ReturnErrors(errors, message) ==
  [kind |-> "return", hasErrors |-> TRUE, errors |-> errors, message |-> message]
ReturnMessage(message) ==
  [kind |-> "return", hasErrors |-> FALSE, errors |-> NoErrors, message |-> message]
ReturnVoid ==
  [kind |-> "return", hasErrors |-> FALSE, errors |-> NoErrors, message |-> <<>>]
Redirected(to) ==
  [kind |-> "redirect", hasErrors |-> FALSE, errors |-> NoErrors, message |-> <<to>>]

Sql(verb, table, params, outcome) ==
  [eff |-> "sql", verb |-> verb, table |-> table, params |-> params, outcome |-> outcome]
RevalidatePath(path) == [eff |-> "revalidatePath", path |-> path]
Redirect(path) == [eff |-> "redirect", path |-> path]

Call(op, args, effects, result) ==
  [op |-> op, args |-> args, effects |-> effects, result |-> result]

(***************************************************************************)
(* Inputs.                                                                 *)
(***************************************************************************)
DbErrors == {"connection refused"}
DbOutcomes == {"ok"} \cup DbErrors
Days == {1, 2}

InvoiceForm(customerId, amount, status) ==
  [customerId |-> customerId, amount |-> amount, status |-> status]

Amount2550 == Str(<<"2", "5", ".", "5", "0">>)
Amount0001 == Str(<<"0", ".", "0", "0", "1">>)

\* Submissions the schema accepts.
ValidInvoiceForms ==
  {InvoiceForm(Str("c1"), Amount2550, Str("pending")),
   InvoiceForm(Str("c2"), Amount0001, Str("paid"))}

\* Submissions it rejects: one field wrong at a time, then all of them.
InvalidInvoiceForms ==
  {InvoiceForm(Null, Amount2550, Str("pending")),
   InvoiceForm(Str("c1"), Null, Str("pending")),
   InvoiceForm(Str("c1"), Str(<<"a", "b", "c">>), Str("pending")),
   InvoiceForm(Str("c1"), Str(<<"-", "1">>), Str("paid")),
   InvoiceForm(Str("c1"), Str(<<"0">>), Str("paid")),
   InvoiceForm(Str("c1"), Amount2550, Null),
   InvoiceForm(Str("c1"), Amount2550, Str("draft")),
   InvoiceForm(Null, Str(<<"-", "1">>), Str("draft"))}

InvoiceForms == ValidInvoiceForms \cup InvalidInvoiceForms
IdInputs == 1..MaxInvoices

\* The schemas' verdicts on the enumerated submissions, computed once.
CreateInvoiceOf == [form \in InvoiceForms |-> CreateInvoice(form)]
UpdateInvoiceOf == [form \in InvoiceForms |-> UpdateInvoice(form)]

(***************************************************************************)
(* Pieces of the invoice handlers.                                         *)
(***************************************************************************)
\* Faulty variant: the early return on a rejected form is missing.
failed_NoEarlyReturn(parsed) == FALSE

\* if (!validatedFields.success) / if (!userInput.success)
failed(parsed) == ~parsed.success

\* const amountInCents = amount * 100
amountInCents(amount) == Num(amount.milli * 100)

\* Faulty variant: the message leaves out the text of the error.
FailureMessage_WithoutError(prefix, error) == <<prefix>>

\* `Failed to ... Database error: ${error}`
FailureMessage(prefix, error) == <<prefix, error>>

\* Faulty variant: redirects without invalidating the cached listing.
afterInvoiceStatement_NoRevalidate == <<Redirect("/dashboard/invoices")>>

\* revalidatePath('/dashboard/invoices'); redirect('/dashboard/invoices');
afterInvoiceStatement ==
  <<RevalidatePath("/dashboard/invoices"), Redirect("/dashboard/invoices")>>

\* Faulty variant: the UPDATE has no WHERE clause.
UpdateRows_NoWhere(table, id, p) ==
  [i \in DOMAIN table |->
     [table[i] EXCEPT !.customer_id = p.customer_id,
                      !.amount = p.amount,
                      !.status = p.status]]

\* UPDATE invoices SET customer_id = .., amount = .., status = .. WHERE id = ..
UpdateRows(table, id, p) ==
  [i \in DOMAIN table |->
     IF i = id
     THEN [table[i] EXCEPT !.customer_id = p.customer_id,
                           !.amount = p.amount,
                           !.status = p.status]
     ELSE table[i]]

\* DELETE FROM invoices WHERE id = ..
DeleteRows(table, id) == [i \in DOMAIN table \ {id} |-> table[i]]

Init ==
  /\ invoices = [i \in {} |-> 0]
  /\ nextId = 1
  /\ users = <<>>
  /\ last = Call("none", <<>>, <<>>, ReturnVoid)

(***************************************************************************)
(* createInvoice(prevState, formData).  The INSERT takes the next          *)
(* identifier of the table; the date is the server's current day.          *)
(***************************************************************************)
createInvoice ==
  \E form \in InvoiceForms :
    LET validatedFields == CreateInvoiceOf[form]
        args == [form |-> form]
    IN IF failed(validatedFields)
       THEN /\ last' = Call("createInvoice", args, <<>>,
                            ReturnErrors(FieldErrors(validatedFields.issues),
                                         <<"Missing Fields. Failed to Create Invoice.">>))
            /\ UNCHANGED <<invoices, nextId, users>>
       ELSE
         \E date \in Days, db \in DbOutcomes :
           LET data == validatedFields.data
               params == [customer_id |-> data.customerId,
                          amount |-> amountInCents(data.amount),
                          status |-> data.status,
                          date |-> date]
               stmt == Sql("INSERT", "invoices", params, db)
           IN IF db # "ok"
              THEN /\ last' = Call("createInvoice", args, <<stmt>>,
                                   ReturnMessage(FailureMessage(
                                     "Failed to Create Invoice. Database error: ", db)))
                   /\ UNCHANGED <<invoices, nextId, users>>
              ELSE /\ nextId <= MaxInvoices
                   /\ invoices' = [i \in DOMAIN invoices \cup {nextId} |->
                                     IF i = nextId THEN params ELSE invoices[i]]
                   /\ nextId' = nextId + 1
                   /\ last' = Call("createInvoice", args,
                                   <<stmt>> \o afterInvoiceStatement,
                                   Redirected("/dashboard/invoices"))
                   /\ UNCHANGED users

(***************************************************************************)
(* updateInvoice(id, prevState, formData).                                 *)
(***************************************************************************)
updateInvoice ==
  \E id \in IdInputs, form \in InvoiceForms :
    LET validatedFields == UpdateInvoiceOf[form]
        args == [id |-> id, form |-> form]
    IN IF failed(validatedFields)
       THEN /\ last' = Call("updateInvoice", args, <<>>,
                            ReturnErrors(FieldErrors(validatedFields.issues),
                                         <<"Missing Fields. Failed to Update Invoice.">>))
            /\ UNCHANGED <<invoices, nextId, users>>
       ELSE
         \E db \in DbOutcomes :
           LET data == validatedFields.data
               params == [customer_id |-> data.customerId,
                          amount |-> amountInCents(data.amount),
                          status |-> data.status,
                          id |-> id]
               stmt == Sql("UPDATE", "invoices", params, db)
           IN IF db # "ok"
              THEN /\ last' = Call("updateInvoice", args, <<stmt>>,
                                   ReturnMessage(FailureMessage(
                                     "Failed to Update Invoice. Database error: ", db)))
                   /\ UNCHANGED <<invoices, nextId, users>>
              ELSE /\ invoices' = UpdateRows(invoices, id, params)
                   /\ last' = Call("updateInvoice", args,
                                   <<stmt>> \o afterInvoiceStatement,
                                   Redirected("/dashboard/invoices"))
                   /\ UNCHANGED <<nextId, users>>

(***************************************************************************)
(* deleteInvoice(id).                                                      *)
(***************************************************************************)
deleteInvoice ==
  \E id \in IdInputs, db \in DbOutcomes :
    LET args == [id |-> id]
        stmt == Sql("DELETE", "invoices", [id |-> id], db)
    IN IF db # "ok"
       THEN /\ last' = Call("deleteInvoice", args, <<stmt>>,
                            ReturnMessage(FailureMessage(
                              "Failed to Delete Invoice. Database error: ", db)))
            /\ UNCHANGED <<invoices, nextId, users>>
       ELSE /\ invoices' = DeleteRows(invoices, id)
            /\ last' = Call("deleteInvoice", args,
                            <<stmt, RevalidatePath("/dashboard/invoices")>>, ReturnVoid)
            /\ UNCHANGED <<nextId, users>>

NextInvoices ==
  \/ createInvoice
  \/ updateInvoice
  \/ deleteInvoice

SpecInvoices == Init /\ [][NextInvoices]_vars

(***************************************************************************)
(* z.string().email(), zod's e-mail pattern: a local part of letters,       *)
(* digits and _ ' + - . that neither starts with a dot nor ends with a dot *)
(* or quote, no two dots in a row anywhere, one @, then one or more labels *)
(* (a letter or digit, then letters, digits and hyphens) each followed by  *)
(* a dot, then a top-level name of two or more letters.                    *)
(***************************************************************************)
LabelOk(label) ==
  /\ Len(label) >= 1
  /\ label[1] \in AlphaNum
  /\ \A i \in 1..Len(label) : label[i] \in AlphaNum \cup {"-"}

TldOk(label) == Len(label) >= 2 /\ \A i \in 1..Len(label) : label[i] \in Letters

IsEmail(s) ==
  LET ats == {i \in 1..Len(s) : s[i] = "@"}
      at == CHOOSE i \in ats : TRUE
      local == SubSeq(s, 1, at - 1)
      domain == SubSeq(s, at + 1, Len(s))
      cuts == {0, Len(domain) + 1} \cup {i \in 1..Len(domain) : domain[i] = "."}
      lastCut == CHOOSE i \in cuts \ {Len(domain) + 1} :
                   \A j \in cuts \ {Len(domain) + 1} : j <= i
      NextCut(a) == CHOOSE b \in cuts : b > a /\ \A c \in cuts : c > a => b <= c
  IN /\ Cardinality(ats) = 1
     /\ Len(local) >= 1
     /\ local[1] # "."
     /\ \A i \in 1..(Len(s) - 1) : ~(s[i] = "." /\ s[i + 1] = ".")
     /\ \A i \in 1..Len(local) : local[i] \in AlphaNum \cup {"_", "'", "+", "-", "."}
     /\ local[Len(local)] \in AlphaNum \cup {"_", "+", "-"}
     /\ lastCut > 0
     /\ \A a \in cuts \ {lastCut, Len(domain) + 1} :
          LabelOk(SubSeq(domain, a + 1, NextCut(a) - 1))
     /\ TldOk(SubSeq(domain, lastCut + 1, Len(domain)))

\* z.string().email().safeParse(formData.get('email'))
EmailSchema(v) == ~v.isNull /\ IsEmail(v.s)

(***************************************************************************)
(* credSchema.  A field that is not a string (null) is a type error, which *)
(* aborts the object: zod then skips the object's refinement.  A failed    *)
(* length or pattern check only marks the object dirty, and the refinement *)
(* still runs.                                                             *)
(***************************************************************************)
UsernameMin == 3
UsernameMax == 20
PasswordMin == 8

Required(field) == <<Issue(field, "Expected string, received null")>>

PasswordIssues(field, v) ==
  IF v.isNull THEN Required(field)
  ELSE
    LET s == v.s
        Has(class) == \E i \in 1..Len(s) : s[i] \in class
    IN (IF Len(s) < PasswordMin
        THEN <<Issue(field, "Password must be at least 8 characters long")>> ELSE <<>>)
       \o (IF ~Has(UpperCase)
           THEN <<Issue(field, "Password must contain at least one uppercase letter")>>
           ELSE <<>>)
       \o (IF ~Has(LowerCase)
           THEN <<Issue(field, "Password must contain at least one lowercase letter")>>
           ELSE <<>>)
       \o (IF ~Has(Digits)
           THEN <<Issue(field, "Password must contain at least one number")>> ELSE <<>>)
       \o (IF ~(\E i \in 1..Len(s) : s[i] \notin AlphaNum)
           THEN <<Issue(field, "Password must contain at least one special character")>>
           ELSE <<>>)

\* .refine((data) => data.password === data.confirmPassword, {path: ["confirmPassword"]})
refine(aborted, form) ==
  IF ~aborted /\ form.password.s # form.confirmPassword.s
  THEN <<Issue("confirmPassword", "Passwords do not match")>>
  ELSE <<>>

credSchema(form) ==
  LET usernameIssues ==
        IF form.username.isNull THEN Required("username")
        ELSE (IF Len(form.username.s) < UsernameMin
              THEN <<Issue("username", "Username must be at least 3 characters long")>>
              ELSE <<>>)
             \o (IF Len(form.username.s) > UsernameMax
                 THEN <<Issue("username", "Username cannot exceed 20 characters")>>
                 ELSE <<>>)
      emailIssues ==
        IF form.email.isNull THEN Required("email")
        ELSE IF ~IsEmail(form.email.s)
        THEN <<Issue("email", "Invalid email address")>> ELSE <<>>
      aborted == \E f \in {"username", "email", "password", "confirmPassword"} :
                   form[f].isNull
      issues == usernameIssues \o emailIssues
                \o PasswordIssues("password", form.password)
                \o PasswordIssues("confirmPassword", form.confirmPassword)
                \o refine(aborted, form)
  IN [success |-> issues = <<>>,
      issues |-> issues,
      data |-> [username |-> form.username.s,
                email |-> form.email.s,
                password |-> form.password.s]]

(***************************************************************************)
(* bcrypt.  hash(password, rounds) draws a salt and returns the string     *)
(* "$2a$<rounds>$<salt><digest>"; the digest is held as the term           *)
(* H(salt, password), so that two hashes agree only on equal salt and      *)
(* password.  compare(password, hash) recomputes with the salt of `hash`.  *)
(***************************************************************************)
SaltRounds == 10
Salts == {"salt1"}

BcryptHash(password, rounds, salt) ==
  <<"$2a$", ToString(rounds), "$", salt, "H(">> \o password \o <<")">>

BcryptCompare(password, hash) ==
  /\ Len(hash) >= 4
  /\ hash[1] = "$2a$"
  /\ \E rounds \in 4..31 :
       ToString(rounds) = hash[2] /\ hash = BcryptHash(password, rounds, hash[4])

HashEffect(password, output) == [eff |-> "bcrypt.hash", input |-> password, output |-> output]
CompareEffect(password, hash) == [eff |-> "bcrypt.compare", input |-> password, hash |-> hash]

(***************************************************************************)
(* Registration inputs.                                                    *)
(***************************************************************************)
RegForm(username, email, password, confirmPassword) ==
  [username |-> username, email |-> email,
   password |-> password, confirmPassword |-> confirmPassword]

Bob == Str(<<"b", "o", "b">>)
LongName ==
  Str(<<"a", "a", "a", "a", "a", "a", "a", "a", "a", "a", "a",
        "a", "a", "a", "a", "a", "a", "a", "a", "a", "a">>)
EmailA == Str(<<"a", "@", "b", ".", "c", "o">>)
EmailZ == Str(<<"z", "@", "b", ".", "c", "o">>)
EmailBad == Str(<<"a", "b">>)
EmailShortTld == Str(<<"a", "@", "b", ".", "c">>)
Pass1 == Str(<<"A", "b", "c", "d", "e", "f", "1", "!">>)
Pass2 == Str(<<"A", "b", "c", "d", "e", "f", "2", "!">>)
PassWeak == Str(<<"a", "b", "c">>)

ValidRegForms ==
  {RegForm(Bob, EmailA, Pass1, Pass1),
   RegForm(Bob, EmailZ, Pass2, Pass2)}

InvalidRegForms ==
  {RegForm(Bob, EmailA, Pass1, Pass2),
   RegForm(Bob, EmailA, PassWeak, Pass1),
   RegForm(Bob, EmailA, PassWeak, PassWeak),
   RegForm(Null, EmailA, Pass1, Pass2),
   RegForm(Bob, Null, Pass1, Pass2),
   RegForm(Bob, EmailA, Null, Pass1),
   RegForm(Bob, EmailA, Pass1, Null),
   RegForm(Str(<<"a", "l">>), EmailBad, Pass1, Pass1),
   RegForm(LongName, EmailShortTld, Pass1, Pass2),
   RegForm(Null, Null, Null, Null)}

RegForms == ValidRegForms \cup InvalidRegForms

\* credSchema's verdict on each enumerated submission, computed once.
credSchemaOf == [form \in RegForms |-> credSchema(form)]

\* Faulty variant: the INSERT is given the password instead of its hash.
userRow_ClearText(username, email, password, hashedPassword) ==
  [name |-> username, email |-> email, password |-> password]

\* INSERT INTO users (name,email,password) VALUES (username, email, hashedPassword)
userRow(username, email, password, hashedPassword) ==
  [name |-> username, email |-> email, password |-> hashedPassword]

(***************************************************************************)
(* addUser(prevState, formData).                                           *)
(***************************************************************************)
addUser ==
  \E form \in RegForms :
    LET userInput == credSchemaOf[form]
        args == [form |-> form]
    IN IF failed(userInput)
       THEN /\ last' = Call("addUser", args, <<>>,
                            ReturnErrors(FieldErrors(userInput.issues), <<>>))
            /\ UNCHANGED <<invoices, nextId, users>>
       ELSE
         \E salt \in Salts, db \in DbOutcomes :
           LET data == userInput.data
               hashedPassword == BcryptHash(data.password, SaltRounds, salt)
               params == userRow(data.username, data.email, data.password, hashedPassword)
               hashing == HashEffect(data.password, hashedPassword)
               stmt == Sql("INSERT", "users", params, db)
           IN IF db # "ok"
              THEN /\ last' = Call("addUser", args, <<hashing, stmt>>,
                                   ReturnMessage(FailureMessage(
                                     "Failed to insert new user. Database error: ", db)))
                   /\ UNCHANGED <<invoices, nextId, users>>
              ELSE /\ Len(users) < MaxUsers
                   /\ users' = Append(users, params)
                   /\ last' = Call("addUser", args, <<hashing, stmt, Redirect("/login")>>,
                                   Redirected("/login"))
                   /\ UNCHANGED <<invoices, nextId>>

(***************************************************************************)
(* getUser(email): the first row of SELECT * FROM users WHERE email = ..,  *)
(* or undefined when there is none or the query throws.                    *)
(***************************************************************************)
Undefined == [found |-> FALSE, threw |-> FALSE, row |-> <<>>]

\* Faulty variant: no try/catch around the query.
getUser_NoCatch(table, email, db) ==
  IF db # "ok" THEN [found |-> FALSE, threw |-> TRUE, row |-> <<>>]
  ELSE
    LET hits == {i \in 1..Len(table) : table[i].email = email}
    IN IF hits = {} THEN Undefined
       ELSE [found |-> TRUE, threw |-> FALSE,
             row |-> table[CHOOSE i \in hits : \A j \in hits : i <= j]]

getUser(table, email, db) ==
  IF db # "ok" THEN Undefined
  ELSE
    LET hits == {i \in 1..Len(table) : table[i].email = email}
    IN IF hits = {} THEN Undefined
       ELSE [found |-> TRUE, threw |-> FALSE,
             row |-> table[CHOOSE i \in hits : \A j \in hits : i <= j]]

(***************************************************************************)
(* Credentials.authorize(credentials).  signInSchema lives in ./lib/zod,   *)
(* outside these sources: whether it accepts a submission is left open     *)
(* (parseOk), except that it yields string `email` and `password`.         *)
(* The result is the user, null, or an exception of getUser passing        *)
(* through; `effects` are the calls made.                                  *)
(***************************************************************************)
authorize(table, credentials, parseOk, db) ==
  LET entered == <<[eff |-> "authorize"]>>
  IN IF ~parseOk
     THEN [user |-> Undefined, threw |-> FALSE, effects |-> entered]
     ELSE
       LET email == credentials.email.s
           password == credentials.password.s
           user == getUser(table, email, db)
           select == Sql("SELECT", "users", [email |-> email], db)
       IN IF user.threw
          THEN [user |-> Undefined, threw |-> TRUE, effects |-> entered \o <<select>>]
          ELSE IF ~user.found
          THEN [user |-> Undefined, threw |-> FALSE, effects |-> entered \o <<select>>]
          ELSE
            LET passwordsMatch == BcryptCompare(password, user.row.password)
                compared == entered \o <<select, CompareEffect(password, user.row.password)>>
            IN IF passwordsMatch
               THEN [user |-> user, threw |-> FALSE, effects |-> compared]
               ELSE [user |-> Undefined, threw |-> FALSE, effects |-> compared]

(***************************************************************************)
(* Errors signIn can throw.  AuthError and its subclasses carry a type;    *)
(* the redirect that ends a successful sign-in (NEXT_REDIRECT) and any     *)
(* failure of the runtime are not AuthErrors.                              *)
(***************************************************************************)
AuthError(type) == [isAuthError |-> TRUE, type |-> type]
OtherError(name) == [isAuthError |-> FALSE, type |-> name]

CredentialsSignin == AuthError("CredentialsSignin")
CallbackRouteError == AuthError("CallbackRouteError")
AdapterError == AuthError("AdapterError")
NextRedirect == OtherError("NEXT_REDIRECT")
TypeError == OtherError("TypeError")

\* What may go wrong in signIn before it reaches the provider.
EarlyErrors == {AdapterError, TypeError}
\* How signIn ends once authorize has returned a user.
LateErrors == {NextRedirect, AdapterError}

SignInForm(email, password) == [email |-> email, password |-> password]
SignInForms ==
  {SignInForm(e, pw) : e \in {EmailA, EmailZ, EmailBad}, pw \in {Pass1, Pass2}}
    \cup {SignInForm(Null, Pass1), SignInForm(EmailA, Null)}

Thrown(error) ==
  [kind |-> "throw", hasErrors |-> FALSE, errors |-> NoErrors, message |-> <<>>,
   error |-> error]
ReturnAuth(message, email) ==
  [kind |-> "return", hasErrors |-> FALSE, errors |-> NoErrors, message |-> message,
   email |-> email]

(***************************************************************************)
(* The catch block of authenticate: what it makes of `error`.              *)
(***************************************************************************)
catchSignIn(form, error) ==
  IF ~EmailSchema(form.email)
  THEN ReturnMessage(<<"Invalid email">>)
  ELSE IF error.isAuthError
  THEN IF error.type = "CredentialsSignin"
       THEN ReturnAuth(<<"Invalid credentials">>, form.email.s)
       ELSE ReturnAuth(<<"Valid credentials, but failed to authenticate">>, form.email.s)
  ELSE Thrown(error)

(***************************************************************************)
(* authenticate(prevState, formData): signIn('credentials', formData)      *)
(* either fails early, or calls authorize and throws CredentialsSignin on  *)
(* null, CallbackRouteError on an exception of authorize, and otherwise    *)
(* ends with the redirect or a failure to create the session.              *)
(***************************************************************************)
authenticate ==
  \E form \in SignInForms :
    LET args == [form |-> form]
        signIn == <<[eff |-> "signIn", provider |-> "credentials"]>>
    IN \/ \E early \in EarlyErrors :
            /\ last' = Call("authenticate", [form |-> form, error |-> early],
                            signIn, catchSignIn(form, early))
            /\ UNCHANGED <<invoices, nextId, users>>
       \/ \E parseOk \in (IF form.email.isNull \/ form.password.isNull
                          THEN {FALSE} ELSE BOOLEAN),
             db \in DbOutcomes, late \in LateErrors :
            LET authz == authorize(users, form, parseOk, db)
                error == IF authz.threw THEN CallbackRouteError
                         ELSE IF ~authz.user.found THEN CredentialsSignin
                         ELSE late
            IN /\ last' = Call("authenticate", [form |-> form, error |-> error],
                               signIn \o authz.effects, catchSignIn(form, error))
               /\ UNCHANGED <<invoices, nextId, users>>

(***************************************************************************)
(* authConfig.callbacks.authorized({auth, request: {nextUrl}}).  A path is *)
(* a sequence of pieces of text; startsWith compares pieces.               *)
(***************************************************************************)
Dashboard == <<"/", "dashboard">>

startsWith(s, prefix) ==
  Len(s) >= Len(prefix) /\ SubSeq(s, 1, Len(prefix)) = prefix

\* Faulty variant: the dashboard branch does not look at the session.
authorized_DashboardOpen(auth, pathname) ==
  LET isLoggedIn == auth.session /\ auth.user
      isOnDashboard == startsWith(pathname, Dashboard)
  IN IF isOnDashboard THEN [kind |-> "allow", to |-> <<>>]
     ELSE IF isLoggedIn THEN [kind |-> "redirect", to |-> Dashboard]
     ELSE [kind |-> "allow", to |-> <<>>]

authorized(auth, pathname) ==
  LET isLoggedIn == auth.session /\ auth.user
      isOnDashboard == startsWith(pathname, Dashboard)
  IN IF isOnDashboard
     THEN IF isLoggedIn THEN [kind |-> "allow", to |-> <<>>]
          ELSE [kind |-> "deny", to |-> <<>>]
     ELSE IF isLoggedIn THEN [kind |-> "redirect", to |-> Dashboard]
     ELSE [kind |-> "allow", to |-> <<>>]

PathPieces == {"/", "dashboard", "login"}

RECURSIVE SeqsUpTo(_, _)
SeqsUpTo(S, n) ==
  IF n = 0 THEN {<<>>}
  ELSE LET shorter == SeqsUpTo(S, n - 1)
       IN shorter \cup {Append(s, x) : s \in shorter, x \in S}

Paths == {p \in SeqsUpTo(PathPieces, MaxPathLen) : Len(p) >= 1 /\ p[1] = "/"}

Auths ==
  {[session |-> FALSE, user |-> FALSE],
   [session |-> TRUE, user |-> FALSE],
   [session |-> TRUE, user |-> TRUE]}

\* A request reaches the middleware, which asks `authorized`.
request ==
  \E auth \in Auths, pathname \in Paths :
    /\ last' = Call("authorized", [auth |-> auth, pathname |-> pathname], <<>>,
                    authorized(auth, pathname))
    /\ UNCHANGED <<invoices, nextId, users>>

(***************************************************************************)
(* Specifications: the invoice handlers, the account handlers, the route   *)
(* guard, and all four mutation handlers together.                         *)
(***************************************************************************)
NextAccounts ==
  \/ addUser
  \/ authenticate

NextRoutes == request

NextMutations ==
  \/ createInvoice
  \/ updateInvoice
  \/ deleteInvoice
  \/ addUser

SpecAccounts == Init /\ [][NextAccounts]_vars
SpecRoutes == Init /\ [][NextRoutes]_vars
SpecMutations == Init /\ [][NextMutations]_vars

(***************************************************************************)
(* Helpers of the properties.                                              *)
(***************************************************************************)
SqlEffects(call) == SelectSeq(call.effects, LAMBDA e : e.eff = "sql")
EffectsOf(call, kinds) == SelectSeq(call.effects, LAMBDA e : e.eff \in kinds)
Messages(result, field) ==
  IF field \in DOMAIN result.errors
  THEN {result.errors[field][i] : i \in DOMAIN result.errors[field]}
  ELSE {}
InvoiceOps == {"createInvoice", "updateInvoice"}
MutationOps == {"createInvoice", "updateInvoice", "deleteInvoice", "addUser"}

\* Whether the schema of the handler rejects the submission of `call`.
Rejected(call) ==
  \/ call.op = "createInvoice" /\ ~CreateInvoiceOf[call.args.form].success
  \/ call.op = "updateInvoice" /\ ~UpdateInvoiceOf[call.args.form].success
  \/ call.op = "addUser" /\ ~credSchemaOf[call.args.form].success

(***************************************************************************)
(* C1.  In createInvoice, updateInvoice and addUser, whenever the schema   *)
(* rejects the submitted form the handler returns a state holding a        *)
(* non-empty field-error mapping and has no effect: it issues no SQL       *)
(* statement, calls neither revalidatePath nor redirect (nor bcrypt), and  *)
(* leaves both tables as they were.  In createInvoice every amount <= 0    *)
(* is rejected with a field error on `amount`.                             *)
(***************************************************************************)
C1_RejectedFormHasNoEffect ==
  [][LET call == last'
     IN /\ Rejected(call) =>
             /\ call.result.kind = "return"
             /\ call.result.hasErrors
             /\ DOMAIN call.result.errors # {}
             /\ call.effects = <<>>
             /\ UNCHANGED <<invoices, nextId, users>>
        /\ (/\ call.op = "createInvoice"
            /\ ~CreateInvoiceOf[call.args.form].data.amount.nan
            /\ CreateInvoiceOf[call.args.form].data.amount.milli <= 0) =>
             /\ Messages(call.result, "amount") # {}
             /\ call.effects = <<>>
             /\ UNCHANGED <<invoices, nextId, users>>]_vars

C1_Witness ==
  /\ last.op = "createInvoice"
  /\ Number(last.args.form.amount).milli < 0
  /\ "Please enter an amount greater than $0." \in Messages(last.result, "amount")
  /\ last.effects = <<>>
  /\ DOMAIN invoices # {}
  /\ users # <<>>

(***************************************************************************)
(* C2.  Every amount handed to an INSERT or UPDATE on `invoices`, and so   *)
(* every stored amount, is a non-negative whole number of currency         *)
(* subunits.                                                               *)
(***************************************************************************)
C2_AmountsAreWholeSubunits ==
  /\ \A i \in DOMAIN invoices :
       IsInteger(invoices[i].amount) /\ invoices[i].amount.milli >= 0
  /\ last.op \in InvoiceOps =>
       \A k \in DOMAIN last.effects :
         last.effects[k].eff = "sql" =>
           /\ IsInteger(last.effects[k].params.amount)
           /\ last.effects[k].params.amount.milli >= 0

(***************************************************************************)
(* C3.  In createInvoice and updateInvoice, a call whose statement         *)
(* succeeded goes on to revalidatePath('/dashboard/invoices') and then     *)
(* redirect('/dashboard/invoices'); a call whose form was rejected or      *)
(* whose statement threw does neither.                                     *)
(***************************************************************************)
C3_RevalidateAndRedirectIffStatementSucceeded ==
  last.op \in InvoiceOps =>
    LET stmts == SqlEffects(last)
        succeeded == Len(stmts) = 1 /\ stmts[1].outcome = "ok"
    IN /\ succeeded =>
            /\ last.effects = <<stmts[1],
                                RevalidatePath("/dashboard/invoices"),
                                Redirect("/dashboard/invoices")>>
            /\ last.result.kind = "redirect"
       /\ ~succeeded =>
            /\ EffectsOf(last, {"revalidatePath", "redirect"}) = <<>>
            /\ last.result.kind = "return"
       /\ Rejected(last) => ~succeeded
       /\ \A k \in DOMAIN last.effects :
            last.effects[k].eff \in {"revalidatePath", "redirect"} =>
              \E j \in 1..(k - 1) :
                last.effects[j].eff = "sql" /\ last.effects[j].outcome = "ok"

C3_Witness ==
  /\ last.op = "updateInvoice"
  /\ Len(last.effects) = 3
  /\ last.effects[1].outcome = "ok"
  /\ last.effects[2].eff = "revalidatePath"
  /\ last.effects[3].eff = "redirect"

(***************************************************************************)
(* C4.  `authorized` decides a request by three cases: not logged in and   *)
(* on a path that starts with /dashboard: denied; logged in on any other   *)
(* path: redirected to /dashboard; otherwise allowed.  So no request       *)
(* without a logged-in user is allowed onto a /dashboard path.             *)
(***************************************************************************)
C4_AuthorizedThreeCases ==
  last.op = "authorized" =>
    LET loggedIn == last.args.auth.session /\ last.args.auth.user
        p == last.args.pathname
        protected == Len(p) >= 2 /\ p[1] = "/" /\ p[2] = "dashboard"
        verdict == last.result
    IN /\ (~loggedIn /\ protected) => verdict.kind = "deny"
       /\ (loggedIn /\ ~protected) =>
            verdict.kind = "redirect" /\ verdict.to = <<"/", "dashboard">>
       /\ (loggedIn = protected) => verdict.kind = "allow"
       /\ (verdict.kind = "allow" /\ protected) => loggedIn

C4_Witness ==
  /\ last.op = "authorized"
  /\ last.args.auth.session
  /\ ~last.args.auth.user
  /\ last.args.pathname = <<"/", "dashboard", "/", "login">>
  /\ last.result.kind = "deny"

(***************************************************************************)
(* C5.  In authenticate, an error of signIn that is not an AuthError is    *)
(* thrown on to the caller and never becomes a returned message, whatever  *)
(* the submitted form, a malformed e-mail included.                        *)
(***************************************************************************)
C5_UnrecognisedErrorsAreRethrown ==
  (last.op = "authenticate" /\ ~last.args.error.isAuthError) =>
    /\ last.result.kind = "throw"
    /\ last.result.error = last.args.error

(***************************************************************************)
(* C6.  When authorize runs for a well-formed e-mail that no user row      *)
(* carries, or for which the lookup query fails, no exception of the       *)
(* lookup comes out: no password is compared, signIn ends with             *)
(* CredentialsSignin and authenticate returns 'Invalid credentials'.       *)
(***************************************************************************)
C6_MissingUserIsInvalidCredentials ==
  (/\ last.op = "authenticate"
   /\ EffectsOf(last, {"authorize"}) # <<>>
   /\ EmailSchema(last.args.form.email)
   /\ \/ \A i \in DOMAIN users : users[i].email # last.args.form.email.s
      \/ \E k \in DOMAIN last.effects :
           last.effects[k].eff = "sql" /\ last.effects[k].outcome # "ok") =>
    /\ EffectsOf(last, {"bcrypt.compare"}) = <<>>
    /\ last.args.error = CredentialsSignin
    /\ last.result.kind = "return"
    /\ last.result.message = <<"Invalid credentials">>

C6_Witness ==
  /\ last.op = "authenticate"
  /\ \E i \in DOMAIN users : users[i].email = last.args.form.email.s
  /\ \E k \in DOMAIN last.effects :
       last.effects[k].eff = "sql" /\ last.effects[k].outcome # "ok"
  /\ last.result.message = <<"Invalid credentials">>

(***************************************************************************)
(* C7.  A call of createInvoice, updateInvoice, deleteInvoice or addUser   *)
(* issues at most one statement, and exactly one unless its form was       *)
(* rejected.  When the statement fails there is no second one, the handler *)
(* returns a message that ends with the text of the error, and both tables *)
(* are as before the call.                                                 *)
(***************************************************************************)
C7_SingleStatementFailClosed ==
  [][LET call == last'
         stmts == SqlEffects(call)
     IN call.op \in MutationOps =>
          /\ Len(stmts) <= 1
          /\ ~Rejected(call) => Len(stmts) = 1
          /\ (Len(stmts) = 1 /\ stmts[1].outcome # "ok") =>
               /\ call.result.kind = "return"
               /\ ~call.result.hasErrors
               /\ Len(call.result.message) = 2
               /\ call.result.message[2] = stmts[1].outcome
               /\ call.effects[Len(call.effects)] = stmts[1]
               /\ UNCHANGED <<invoices, nextId, users>>]_vars

C7_Witness ==
  /\ last.op = "addUser"
  /\ Len(SqlEffects(last)) = 1
  /\ SqlEffects(last)[1].outcome \in DbErrors
  /\ last.result.message =
       <<"Failed to insert new user. Database error: ", SqlEffects(last)[1].outcome>>
  /\ DOMAIN invoices # {}

(***************************************************************************)
(* C8.  Whenever addUser is given a password that differs from the         *)
(* confirmation, the field errors hold 'Passwords do not match' under      *)
(* confirmPassword, and not under password; no row is inserted and there   *)
(* is no redirect.                                                         *)
(***************************************************************************)
C8_MismatchIsReportedOnConfirmPassword ==
  (/\ last.op = "addUser"
   /\ last.args.form.password # last.args.form.confirmPassword) =>
    /\ last.result.kind = "return"
    /\ "Passwords do not match" \in Messages(last.result, "confirmPassword")
    /\ "Passwords do not match" \notin Messages(last.result, "password")
    /\ last.effects = <<>>

(***************************************************************************)
(* C9.  A successful updateInvoice(id, ..) changes nothing but the         *)
(* customer, amount and status of invoice `id`: the set of identifiers,    *)
(* the date of that invoice, every other invoice and the users table stay  *)
(* as they were.  No step of any handler changes the date of an invoice    *)
(* that exists before and after it, and identifiers are not reused.        *)
(***************************************************************************)
C9_UpdateFrameAndDateImmutable ==
  [][/\ (last'.op = "updateInvoice" /\ last'.result.kind = "redirect") =>
          LET id == last'.args.id
          IN /\ DOMAIN invoices' = DOMAIN invoices
             /\ \A i \in DOMAIN invoices :
                  /\ i # id => invoices'[i] = invoices[i]
                  /\ invoices'[i].date = invoices[i].date
             /\ id \in DOMAIN invoices =>
                  /\ invoices'[id].customer_id = last'.args.form.customerId.s
                  /\ invoices'[id].status = last'.args.form.status.s
             /\ users' = users
             /\ nextId' = nextId
     /\ \A i \in DOMAIN invoices \cap DOMAIN invoices' :
          invoices'[i].date = invoices[i].date
     /\ \A i \in DOMAIN invoices' \ DOMAIN invoices :
          i = nextId /\ nextId' > nextId /\ last'.op = "createInvoice"]_vars

C9_Witness ==
  /\ last.op = "updateInvoice"
  /\ last.result.kind = "redirect"
  /\ DOMAIN invoices = {1, 2}
  /\ last.args.id = 1
  /\ invoices[1].customer_id = "c2"
  /\ invoices[1].date = 2
  /\ invoices[2].customer_id = "c1"
  /\ invoices[2].date = 1

\* The passwords submitted to addUser, as typed.
ClearPasswords ==
  {f.password.s : f \in {g \in RegForms : ~g.password.isNull}}

(***************************************************************************)
(* C10.  The password column of every users row holds a bcrypt hash of a   *)
(* submitted password and never a submitted password itself; addUser       *)
(* hashes before it issues the INSERT and passes the output of the hash,   *)
(* not the password, for that column.                                      *)
(***************************************************************************)
C10_OnlyHashesAreStored ==
  /\ \A i \in DOMAIN users :
       /\ users[i].password \notin ClearPasswords
       /\ \E pw \in ClearPasswords : BcryptCompare(pw, users[i].password)
  /\ last.op = "addUser" =>
       \A k \in DOMAIN last.effects :
         last.effects[k].eff = "sql" =>
           /\ k = 2
           /\ last.effects[1].eff = "bcrypt.hash"
           /\ last.effects[1].input = last.args.form.password.s
           /\ last.effects[k].params.password = last.effects[1].output
           /\ last.effects[k].params.password # last.args.form.password.s
           /\ BcryptCompare(last.args.form.password.s, last.effects[k].params.password)

C10_Witness ==
  /\ last.op = "addUser"
  /\ last.result.kind = "redirect"
  /\ Len(users) = 1
  /\ BcryptCompare(last.args.form.password.s, users[1].password)

====
